---- MODULE Spec2Model ----
(***************************************************************************)
(* Model of themerator: the palette filter (binary search over a           *)
(* similarity threshold), the Base16 slot assigner and the theme objects   *)
(* of base16_imagen.py, themerator.py and sweet16.py.                      *)
(*                                                                         *)
(* Colours are triples <<r, g, b>> of integers in 0..255.                  *)
(*                                                                         *)
(* Arithmetic.  The code works in IEEE doubles, and so does the model: a    *)
(* double x >= 0 is a record [num, bits] that stands for num / 2^bits, num *)
(* a natural number of at most 53 significant bits (kept as a little-      *)
(* endian sequence of 13-bit limbs).  Sums, differences, quotients and     *)
(* square roots are computed exactly and then rounded to 53 bits, to       *)
(* nearest with ties to even: midpoint is (left + right) / 2, subtract,    *)
(* divide and sqrt are the operations of get_similarity and of the         *)
(* background test, multiply that of the darkness boundaries.  The pow of   *)
(* the C library behind similarity_threshold ** 4 is not correctly         *)
(* rounded and differs between libraries: pow4 is the set of the doubles   *)
(* within its error bound of the exact power, and a call takes any of      *)
(* them.  So the filter of base16_imagen.py, and whatever is built on it,  *)
(* is a set of outcomes, of one element unless two such doubles lie on     *)
(* either side of a value the background test compares with.               *)
(*                                                                         *)
(* The two float comparisons of filter_by_similarity fall as the distance  *)
(* of the colours grows, so each is an integer bound on the distance:      *)
(*    1 - sqrt(d2)/sqrt(3*255^2) > t    <=>  d2 < SimilarityBound(t)       *)
(*    (255 - delta/3)/255 > b           <=>  delta < ClosenessBound(b)     *)
(* The bounds are those of exact arithmetic except where the threshold is  *)
(* within 2^-51 of the value for some distance; there the doubles of the   *)
(* code are computed and compared.                                         *)
(***************************************************************************)
EXTENDS Integers, Sequences, FiniteSets, TLC

----------------------------------------------------------------------------
(* Exact natural numbers: little-endian sequences of limbs in 0..Limb-1.   *)

Limb == 2^13

\* drop leading (most significant) zero limbs
BigNorm(a) ==
    LET nonzero == {k \in 1..Len(a) : a[k] # 0}
    IN  IF nonzero = {} THEN <<>>
        ELSE SubSeq(a, 1, CHOOSE m \in nonzero : \A k \in nonzero : k <= m)

RECURSIVE BigCarry(_)
\* the number with columns cols (any integers, the total a natural number):
\* carries are moved one column up, all columns at once, until none is left
BigCarry(cols) ==
    IF \A k \in 1..Len(cols) : cols[k] \in 0..(Limb - 1) THEN BigNorm(cols)
    ELSE BigCarry(SubSeq([k \in 1..(Len(cols) + 1) |->
                            (IF k <= Len(cols) THEN cols[k] % Limb ELSE 0)
                            + (IF k > 1 THEN cols[k - 1] \div Limb ELSE 0)],
                         1, Len(cols) + 1))

BigLimb(a, k) == IF k \in 1..Len(a) THEN a[k] ELSE 0

BigOfInt(n) == BigCarry(<<n>>)

\* only for values below 2^31
BigToInt(a) == BigLimb(a, 1) + Limb * BigLimb(a, 2) + Limb * Limb * BigLimb(a, 3)

BigAdd(a, b) ==
    LET n == IF Len(a) >= Len(b) THEN Len(a) ELSE Len(b)
    IN  BigCarry(SubSeq([k \in 1..n |-> BigLimb(a, k) + BigLimb(b, k)], 1, n))

\* a - b, for a >= b
BigSub(a, b) ==
    BigCarry(SubSeq([k \in 1..Len(a) |-> a[k] - BigLimb(b, k)], 1, Len(a)))

\* a * k, for 0 <= k < 2^13
BigMulSmall(a, k) ==
    BigCarry(SubSeq([i \in 1..Len(a) |-> a[i] * k], 1, Len(a)))

RECURSIVE BigColumn(_, _, _, _, _)
\* the sum of a[i] * b[c + 1 - i] for i in lo..hi (at most 16 products)
BigColumn(a, b, c, lo, hi) ==
    IF lo > hi THEN 0
    ELSE IF lo = hi THEN a[lo] * BigLimb(b, c + 1 - lo)
    ELSE BigColumn(a, b, c, lo, (lo + hi) \div 2)
         + BigColumn(a, b, c, (lo + hi) \div 2 + 1, hi)

BigMul(a, b) ==
    IF a = <<>> \/ b = <<>> THEN <<>>
    ELSE LET n == Len(a) + Len(b) - 1
         IN  BigCarry(SubSeq([c \in 1..n |-> BigColumn(a, b, c, 1, Len(a))], 1, n))

\* a < b, both normalised
BigLess(a, b) ==
    IF Len(a) # Len(b) THEN Len(a) < Len(b)
    ELSE LET differ == {k \in 1..Len(a) : a[k] # b[k]}
         IN  /\ differ # {}
             /\ LET top == CHOOSE m \in differ : \A k \in differ : k <= m
                IN  a[top] < b[top]

\* 2^bits
BigPow2(bits) ==
    SubSeq([k \in 1..(bits \div 13 + 1) |-> IF k = bits \div 13 + 1 THEN 2^(bits % 13) ELSE 0],
           1, bits \div 13 + 1)

\* floor(a / 2), a normalised
BigHalf(a) ==
    BigNorm(SubSeq([k \in 1..Len(a) |-> a[k] \div 2 + (BigLimb(a, k + 1) % 2) * (Limb \div 2)],
                   1, Len(a)))

\* floor(a / 2^bits) as an integer (the quotient must be below 2^18)
BigShrInt(a, bits) ==
    LET whole == bits \div 13
        rest  == IF Len(a) > whole THEN SubSeq(a, whole + 1, Len(a)) ELSE <<>>
    IN  BigToInt(rest) \div 2^(bits % 13)

\* ceil(a / 2^bits) as an integer
BigShrIntCeil(a, bits) ==
    LET whole == bits \div 13
        exact == /\ \A k \in 1..Len(a) : k <= whole => a[k] = 0
                 /\ Len(a) > whole => a[whole + 1] % 2^(bits % 13) = 0
    IN  IF exact THEN BigShrInt(a, bits) ELSE BigShrInt(a, bits) + 1

----------------------------------------------------------------------------
(* Doubles.  A double x >= 0 is the record [num, bits] with x = num /      *)
(* 2^bits, num a natural number of at most Mantissa significant bits.  An  *)
(* operation computes the exact result and rounds it to the nearest such   *)
(* number, a tie to the even one, as IEEE 754 does.  No value of the       *)
(* program is negative, subnormal or infinite where these are used.        *)

Mantissa == 53

\* the number of bits of a (a normalised), 0 for 0
BigBits(a) ==
    IF a = <<>> THEN 0
    ELSE 13 * (Len(a) - 1) + Cardinality({k \in 0..12 : 2^k <= a[Len(a)]})

\* a * 2^bits
BigShl(a, bits) ==
    IF a = <<>> THEN <<>>
    ELSE BigCarry(SubSeq([k \in 1..(bits \div 13 + Len(a)) |->
                            IF k <= bits \div 13 THEN 0
                            ELSE a[k - bits \div 13] * 2^(bits % 13)],
                         1, bits \div 13 + Len(a)))

\* floor(rest / 2^r), for r < 13
BigShrLimbs(rest, r) ==
    BigNorm(SubSeq([k \in 1..Len(rest) |->
                      rest[k] \div 2^r + (BigLimb(rest, k + 1) % 2^r) * 2^(13 - r)],
                   1, Len(rest)))

\* floor(a / 2^bits)
BigShr(a, bits) ==
    IF Len(a) <= bits \div 13 THEN <<>>
    ELSE BigShrLimbs(SubSeq(a, bits \div 13 + 1, Len(a)), bits % 13)

\* whether q * 2^low + r, r < 2^low = 2 * half, is rounded up to (q + 1) * 2^low;
\* sticky: the number rounded is slightly more than this one
RoundUp(q, r, half, sticky) ==
    BigLess(half, r) \/ (r = half /\ (sticky \/ q[1] % 2 = 1))

\* n rounded at bit `low`, q = floor(n / 2^low)
RoundAt(n, q, low, sticky) ==
    BigShl(IF RoundUp(q, BigSub(n, BigShl(q, low)), BigPow2(low - 1), sticky)
           THEN BigAdd(q, <<1>>)
           ELSE q,
           low)

\* the numerator n (slightly more than n when sticky, which takes n of more than
\* Mantissa bits) rounded to Mantissa significant bits
Round(n, sticky) ==
    IF BigBits(n) <= Mantissa THEN n
    ELSE RoundAt(n, BigShr(n, BigBits(n) - Mantissa), BigBits(n) - Mantissa, sticky)

\* the double k / 2^bits (k of at most Mantissa bits)
Dyadic(k, bits) == [num |-> BigOfInt(k), bits |-> bits]

\* x > y
greater(x, y) == BigLess(BigShl(y.num, x.bits), BigShl(x.num, y.bits))

\* the numerator of x over 2^bits, bits >= x.bits
Over(x, bits) == BigShl(x.num, bits - x.bits)

\* x - y, for x >= y
subtract(x, y) ==
    IF x.bits >= y.bits
    THEN [num |-> Round(BigSub(x.num, Over(y, x.bits)), FALSE), bits |-> x.bits]
    ELSE [num |-> Round(BigSub(Over(x, y.bits), y.num), FALSE), bits |-> y.bits]

\* one step of long division: the bit `lo` of the quotient
DivStep(st, d, lo) ==
    IF BigLess(st.rem, BigShl(d, lo)) THEN st
    ELSE [quot |-> BigAdd(st.quot, BigPow2(lo)), rem |-> BigSub(st.rem, BigShl(d, lo))]

RECURSIVE DivBits(_, _, _, _)
\* long division by d over the bits hi..lo of the quotient, the upper half of
\* them first; st holds the quotient so far and what remains of the dividend
DivBits(st, d, hi, lo) ==
    IF st.rem = <<>> THEN st
    ELSE IF hi = lo THEN DivStep(st, d, lo)
    ELSE DivBits(DivBits(st, d, hi, (hi + lo) \div 2 + 1), d, (hi + lo) \div 2, lo)

\* quot = floor(n / d) and rem = n - quot * d, for d > 0
BigDiv(n, d) ==
    DivBits([quot |-> <<>>, rem |-> n], d,
            IF BigBits(n) >= BigBits(d) THEN BigBits(n) - BigBits(d) ELSE 0, 0)

\* quotients are carried to QuotientBits binary places before they are rounded
\* (the quotients of the program are 0 or at least 2^-9, so that more than
\* Mantissa bits are at hand)
QuotientBits == 65

\* the result st of a division or a root rounded
Rounded(st) == Round(st.quot, st.rem # <<>>)

\* x / y
divide(x, y) ==
    [num  |-> Rounded(BigDiv(BigShl(x.num, y.bits + QuotientBits), BigShl(y.num, x.bits))),
     bits |-> QuotientBits]

\* (quot + 2^lo)^2 - quot^2
SqrtTerm(quot, lo) == BigShl(BigAdd(BigShl(quot, 1), BigPow2(lo)), lo)

\* one step of the digit-by-digit square root: the bit `lo` of the root
SqrtStep(st, lo) ==
    IF BigLess(st.rem, SqrtTerm(st.quot, lo)) THEN st
    ELSE [quot |-> BigAdd(st.quot, BigPow2(lo)), rem |-> BigSub(st.rem, SqrtTerm(st.quot, lo))]

RECURSIVE SqrtBits(_, _, _)
\* the bits hi..lo of the root, the upper half of them first; st holds the root
\* so far (quot) and what remains under the root (rem)
SqrtBits(st, hi, lo) ==
    IF st.rem = <<>> THEN st
    ELSE IF hi = lo THEN SqrtStep(st, lo)
    ELSE SqrtBits(SqrtBits(st, hi, (hi + lo) \div 2 + 1), (hi + lo) \div 2, lo)

\* quot = floor(sqrt(n)) and rem = n - quot^2
BigSqrt(n) == SqrtBits([quot |-> <<>>, rem |-> n], BigBits(n) \div 2, 0)

\* roots are carried to RootBits binary places before they are rounded
RootBits == 56

\* math.sqrt(k) of an integer k
sqrt(k) ==
    [num  |-> Rounded(BigSqrt(BigShl(BigOfInt(k), 2 * RootBits))), bits |-> RootBits]

\* x * k for an integer k
multiply(x, k) == [num |-> Round(BigMulSmall(x.num, k), FALSE), bits |-> x.bits]

\* similarity_threshold ** 4 is the pow of the C library, which is within
\* 1/2 + 1/PowSlack units in the last place of the exact power
PowSlack == 16

\* whether pow can return q * 2^low, the double below the exact power n
PowDown(n, q, low) ==
    ~BigLess(BigMulSmall(BigPow2(low), PowSlack + 2),
             BigMulSmall(BigSub(n, BigShl(q, low)), 2 * PowSlack))

\* whether pow can return (q + 1) * 2^low, the double above the exact power n
PowUp(n, q, low) ==
    ~BigLess(BigMulSmall(BigPow2(low), PowSlack + 2),
             BigMulSmall(BigSub(BigShl(BigAdd(q, <<1>>), low), n), 2 * PowSlack))

\* the numerators pow can return for the exact power n, q = floor(n / 2^low)
PowValues(n, q, low) ==
    (IF PowDown(n, q, low) THEN {BigShl(q, low)} ELSE {})
        \cup (IF PowUp(n, q, low) THEN {BigShl(BigAdd(q, <<1>>), low)} ELSE {})

\* the same for any n: a power that a double holds is returned as it is
PowNums(n) ==
    IF BigBits(n) <= Mantissa THEN {n}
    ELSE PowValues(n, BigShr(n, BigBits(n) - Mantissa), BigBits(n) - Mantissa)

\* similarity_threshold ** 4: the doubles that pow can return
pow4(t) ==
    {[num |-> n, bits |-> 4 * t.bits] :
        n \in PowNums(BigMul(BigMul(t.num, t.num), BigMul(t.num, t.num)))}

\* (left + right) / 2 of the doubles left / 2^bits and right / 2^bits, which
\* are multiples of 2 / 2^bits in the search: the sum is rounded, the half is exact
midpoint(left, right, bits) ==
    [num |-> BigHalf(Round(BigAdd(left, right), FALSE)), bits |-> bits]

----------------------------------------------------------------------------
(* Thresholds, and the two comparisons of filter_by_similarity.  Both      *)
(* expressions compared with a threshold fall as the distance of the       *)
(* colours grows, so that each comparison comes to an integer bound on the *)
(* distance.  The bound is the one of exact arithmetic unless the          *)
(* threshold is within 2^-Guard of the exact value of the expression for   *)
(* some distance; for these distances the doubles are computed.  (The      *)
(* roundings of either expression add up to less than 2^-Guard.)           *)

Guard == 51

\* 1 - t, as a numerator over 2^t.bits
OneMinus(t) == BigSub(BigPow2(t.bits), t.num)

\* sum(colour): the channel sum
sum(colour) == colour[1] + colour[2] + colour[3]

\* the squared Euclidean distance under the square root of get_similarity
dist2(c1, c2) ==
    (c1[1] - c2[1]) * (c1[1] - c2[1]) + (c1[2] - c2[2]) * (c1[2] - c2[2])
        + (c1[3] - c2[3]) * (c1[3] - c2[3])

\* math.sqrt(sum([255 ** 2 for _ in range(3)]))
Root == sqrt(3 * 255 * 255)

\* get_similarity of two colours at squared distance d2
get_similarity(d2) == subtract(Dyadic(1, 0), divide(sqrt(d2), Root))

\* ceil(3 * 255^2 * (x / 2^bits)^2): d2 < SquareBound  <=>  sqrt(d2/(3*255^2)) < x / 2^bits
SquareBound(x, bits) ==
    BigShrIntCeil(BigMulSmall(BigMulSmall(BigMul(x, x), 765), 255), 2 * bits)

\* the least element of a set of integers, `otherwise` for the empty set
Least(set, otherwise) ==
    IF set = {} THEN otherwise ELSE CHOOSE m \in set : \A x \in set : m <= x

\* the least d2 with get_similarity(d2) > t false, known to be in lo..hi
SimilarityBoundIn(t, lo, hi) ==
    IF lo = hi THEN lo
    ELSE Least({d2 \in lo..(hi - 1) : ~greater(get_similarity(d2), t)}, hi)

\* the same from u = 1 - t and e = 2^-Guard, numerators over 2^bits
SimilarityBoundAt(t, u, e, bits) ==
    SimilarityBoundIn(t,
                      IF BigLess(u, e) THEN 0 ELSE SquareBound(BigSub(u, e), bits),
                      SquareBound(BigAdd(u, e), bits))

\* the bound of a similarity that measures the distance itself, d/sqrt(3*255^2)
DistanceBound(t) == SquareBound(t.num, t.bits)

\* get_similarity(c1, c2) > t  <=>  dist2(c1, c2) < SimilarityBound(t)
SimilarityBound(t) ==
    IF t.bits >= Guard
    THEN SimilarityBoundAt(t, OneMinus(t), BigPow2(t.bits - Guard), t.bits)
    ELSE SimilarityBoundAt(t, BigShl(OneMinus(t), Guard - t.bits), <<1>>, Guard)

get_similarity_above(c1, c2, simBound) == dist2(c1, c2) < simBound

\* (255 - delta / 3) / 255 for a difference delta of channel sums
closeness(delta) ==
    divide(subtract(Dyadic(255, 0), divide(Dyadic(delta, 0), Dyadic(3, 0))),
           Dyadic(255, 0))

\* the least delta with closeness(delta) > b false, known to be in lo..hi
ClosenessBoundIn(b, lo, hi) ==
    IF lo = hi THEN lo
    ELSE Least({delta \in lo..(hi - 1) : ~greater(closeness(delta), b)}, hi)

\* the same from the numerators n of b and e of 2^-Guard over 2^bits:
\* (765 - delta)/765 > b + e for delta < lo, < b - e for delta >= hi
ClosenessBoundAt(b, n, e, bits) ==
    ClosenessBoundIn(b,
                     765 - BigShrInt(BigMulSmall(BigAdd(n, e), 765), bits),
                     766 - (IF BigLess(n, e) THEN 0
                            ELSE BigShrIntCeil(BigMulSmall(BigSub(n, e), 765), bits)))

\* (255 - delta/3)/255 > b  <=>  delta < ClosenessBound(b)
ClosenessBound(b) ==
    IF b.bits >= Guard
    THEN ClosenessBoundAt(b, b.num, BigPow2(b.bits - Guard), b.bits)
    ELSE ClosenessBoundAt(b, BigShl(b.num, Guard - b.bits), <<1>>, Guard)

\* the bounds for background_similarity_threshold = similarity_threshold ** 4
\* (base16_imagen.py), one for each double that pow can return
BackgroundBound(t) == {ClosenessBound(b) : b \in pow4(t)}

\* x * 2
twice(x) == [num |-> BigMulSmall(x.num, 2), bits |-> x.bits]

\* max(1 - (1 - t) * 2, t) (themerator.py); the first is negative when
\* (1 - t) * 2 > 1
themerator_background_similarity_threshold(t) ==
    IF greater(twice(subtract(Dyadic(1, 0), t)), Dyadic(1, 0)) THEN t
    ELSE IF greater(t, subtract(Dyadic(1, 0), twice(subtract(Dyadic(1, 0), t)))) THEN t
    ELSE subtract(Dyadic(1, 0), twice(subtract(Dyadic(1, 0), t)))

\* the bound for that threshold
themerator_BackgroundBound(t) ==
    ClosenessBound(themerator_background_similarity_threshold(t))

background_similarity_above(colour, background, bgBound) ==
    (IF sum(colour) >= sum(background)
     THEN sum(colour) - sum(background)
     ELSE sum(background) - sum(colour)) < bgBound

\* a body that compares the colour with the background only
filter_step_background_only(colour, chosen, background, simBound, bgBound) ==
    IF \/ get_similarity_above(colour, background, simBound)
       \/ background_similarity_above(colour, background, bgBound)
    THEN chosen
    ELSE Append(chosen, colour)

\* the body of the for-loop of filter_by_similarity for one colour
filter_step(colour, chosen, background, simBound, bgBound) ==
    IF \/ /\ chosen # <<>>
          /\ \E k \in 1..Len(chosen) : get_similarity_above(colour, chosen[k], simBound)
       \/ background_similarity_above(colour, background, bgBound)
    THEN chosen
    ELSE Append(chosen, colour)

RECURSIVE filter_loop(_, _, _, _, _)
\* the for-loop of filter_by_similarity over the colours after the background
\* (the first half of the colours, then the second half)
filter_loop(rest, chosen, background, simBound, bgBound) ==
    IF rest = <<>> THEN chosen
    ELSE IF Len(rest) = 1
    THEN filter_step(rest[1], chosen, background, simBound, bgBound)
    ELSE LET half == Len(rest) \div 2
             kept == filter_loop(SubSeq(rest, 1, half), chosen, background,
                                 simBound, bgBound)
         IN  IF kept = <<>>
             THEN filter_loop(SubSeq(rest, half + 1, Len(rest)), <<>>, background,
                              simBound, bgBound)
             ELSE filter_loop(SubSeq(rest, half + 1, Len(rest)), kept, background,
                              simBound, bgBound)

\* the bounds that the background test of module impl can come to at threshold
\* t; sweet16 has no background rule (no colour is within a bound of 0)
BackgroundBounds(impl, t) ==
    CASE impl = "base16_imagen" -> BackgroundBound(t)
      [] impl = "themerator" -> {themerator_BackgroundBound(t)}
      [] impl = "sweet16" -> {0}

\* the threshold t with the integer bounds that the two comparisons come to
Threshold(t, background) ==
    [num        |-> t.num,
     bits       |-> t.bits,
     similarity |-> SimilarityBound(t),
     background |-> background]

\* the same for module impl, for each bound of its background test
ThresholdsOf(impl, t) ==
    {Threshold(t, background) : background \in BackgroundBounds(impl, t)}

\* filter_by_similarity of module impl at threshold th: base16_imagen and
\* themerator start from chosen = [background], the first colour; sweet16 starts
\* from an empty list (no attribute dominant_colour is ever set)
filter_at(impl, cols, th) ==
    IF cols = <<>> THEN <<>>
    ELSE IF impl = "sweet16"
    THEN filter_loop(cols, <<>>, Head(cols), th.similarity, th.background)
    ELSE filter_loop(Tail(cols), <<Head(cols)>>, Head(cols), th.similarity, th.background)

\* the lists that filter_by_similarity of module impl can return
filter_passes(impl, cols, similarity_threshold) ==
    {filter_at(impl, cols, th) : th \in ThresholdsOf(impl, similarity_threshold)}

\* base16_imagen.Theme.filter_by_similarity
filter_by_similarity(cols, similarity_threshold) ==
    filter_passes("base16_imagen", cols, similarity_threshold)

\* themerator.Theme.filter_by_similarity
themerator_filter_by_similarity(cols, similarity_threshold) ==
    filter_passes("themerator", cols, similarity_threshold)

\* sweet16.ThemeMaker.filter_by_similarity
sweet16_filter_by_similarity(cols, similarity_threshold) ==
    filter_passes("sweet16", cols, similarity_threshold)

\* sorted(s, key=...): stable ascending sort of s by the integer keys keys[i] of s[i]
sorted(s, keys) ==
    LET n    == Len(s)
        rank == [i \in 1..n |->
                   Cardinality({j \in 1..n :
                       keys[j] < keys[i] \/ (keys[j] = keys[i] /\ j < i)}) + 1]
    IN  SubSeq([p \in 1..n |-> s[CHOOSE i \in 1..n : rank[i] = p]], 1, n)

\* the sort of filter_palette without the tone: always ascending
sort_ascending(cols, dark) ==
    sorted(cols, [i \in 1..Len(cols) |-> sum(cols[i])])

\* sorted(colours, key=lambda x: sum(x) * (1 if self.dark else -1))
sort_by_tone(cols, dark) ==
    sorted(cols, [i \in 1..Len(cols) |-> sum(cols[i]) * (IF dark THEN 1 ELSE -1)])

\* the rest of a round of the for-loop of filter_palette, from n = len(candidates)
narrow(st, middle, candidates) ==
    [middle     |-> middle,
     left       |-> IF Len(candidates) < 16 THEN middle.num ELSE st.left,
     right      |-> IF Len(candidates) > 16 THEN middle.num ELSE st.right,
     hit        |-> Len(candidates) = 16,
     candidates |-> candidates]

\* a round of the for-loop of filter_palette at threshold middle:
\* candidates = self.filter_by_similarity(colours, middle)
search_at(impl, cols, st, middle) ==
    narrow(st, middle, filter_at(impl, cols, middle))

\* one round of the for-loop of filter_palette: middle = (left + right) / 2;
\* left and right are numerators over 2^bits
search_round(impl, cols, st, bits) ==
    {search_at(impl, cols, st, middle) :
        middle \in ThresholdsOf(impl, midpoint(st.left, st.right, bits))}

\* the same from each of the states sts; the loop has ended where a round
\* yielded 16 colours
search_step(impl, cols, sts, bits) ==
    UNION {IF st.hit THEN {st} ELSE search_round(impl, cols, st, bits) : st \in sts}

RECURSIVE search_from(_, _, _, _, _)
\* the for-loop of filter_palette from the states sts with `retries` rounds
\* left.  (k rounds are run as k/2 rounds followed by the remaining ones, which
\* keeps the evaluation shallow.)
search_from(impl, cols, sts, retries, bits) ==
    IF retries = 0 \/ \A st \in sts : st.hit THEN sts
    ELSE IF retries = 1 THEN search_step(impl, cols, sts, bits)
    ELSE search_from(impl, cols,
                     search_from(impl, cols, sts, retries \div 2, bits),
                     retries - retries \div 2, bits)

\* the state before the first round: middle and candidates are not bound
Unbound(bits) ==
    [middle |-> [num |-> <<>>, bits |-> bits, similarity |-> 0, background |-> 0],
     left |-> <<>>, right |-> BigPow2(bits), hit |-> FALSE, candidates |-> <<>>]

\* left, right = 0.0, 1.0 and the loop: the states it can end in
search(impl, cols, retries, bits) ==
    search_from(impl, cols, {Unbound(bits)}, retries, bits)

----------------------------------------------------------------------------
(* Results of calls: what was raised ("none" when the call returned), the  *)
(* value returned, and whether logger.warning was called.                  *)

NoValue == <<>>

Return(v, warned) == [raised |-> "none", value |-> v, warned |-> warned]

Raise(e) == [raised |-> e, value |-> NoValue, warned |-> FALSE]

\* max_retries: int = 50
max_retries == 50

\* the end of filter_palette without the warning
after_search_silent(s, has_logger, retries) ==
    IF s.hit THEN Return(s.candidates, FALSE)
    ELSE IF retries = 0 THEN Raise("UnboundLocalError")
    ELSE IF Len(s.candidates) < 8 THEN Raise("ValueError")
    ELSE Return(s.candidates, FALSE)

\* the end of filter_palette with a floor of 7 colours
after_search_floor_7(s, has_logger, retries) ==
    IF s.hit THEN Return(s.candidates, FALSE)
    ELSE IF retries = 0 THEN Raise("UnboundLocalError")
    ELSE IF Len(s.candidates) < 7 THEN Raise("ValueError")
    ELSE IF Len(s.candidates) < 16 /\ ~has_logger THEN Raise("AttributeError")
    ELSE Return(s.candidates, Len(s.candidates) < 16)

\* the end of filter_palette without the floor
after_search_without_floor(s, has_logger, retries) ==
    IF s.hit THEN Return(s.candidates, FALSE)
    ELSE IF retries = 0 THEN Raise("UnboundLocalError")
    ELSE IF Len(s.candidates) < 16 /\ ~has_logger THEN Raise("AttributeError")
    ELSE Return(s.candidates, Len(s.candidates) < 16)

\* the end of base16_imagen's filter_palette, s the state the loop ended in
after_search(s, has_logger, retries) ==
    IF s.hit THEN Return(s.candidates, FALSE)
    ELSE IF retries = 0 THEN Raise("UnboundLocalError")
    ELSE IF Len(s.candidates) < 8 THEN Raise("ValueError")
    ELSE IF Len(s.candidates) < 16 /\ ~has_logger THEN Raise("AttributeError")
    ELSE Return(s.candidates, Len(s.candidates) < 16)

\* base16_imagen.Theme.filter_palette: the results it can have; has_logger:
\* whether self.logger is set
filter_palette(cols, dark, has_logger, retries) ==
    {after_search(s, has_logger, retries) :
        s \in search("base16_imagen", sort_by_tone(cols, dark), retries, retries)}

\* the end of themerator's filter_palette: it warns whenever the loop ran out
themerator_after_search(s, retries) ==
    IF s.hit THEN Return(s.candidates, FALSE)
    ELSE IF retries = 0 THEN Raise("UnboundLocalError")
    ELSE IF Len(s.candidates) < 8 THEN Raise("ValueError")
    ELSE Return(s.candidates, TRUE)

\* themerator.Theme.filter_palette (self.logger is set before it is called)
themerator_filter_palette(cols, dark, retries) ==
    {themerator_after_search(s, retries) :
        s \in search("themerator", sort_by_tone(cols, dark), retries, retries)}

\* the end of sweet16's filter_palette
sweet16_after_search(s) ==
    IF s.hit THEN Return(s.candidates, FALSE) ELSE Raise("RecursionError")

\* sweet16.ThemeMaker.filter_palette: the colours are sorted by ascending sum;
\* dominant_background is not used
sweet16_filter_palette(cols, dominant_background, retries) ==
    {sweet16_after_search(s) :
        s \in search("sweet16", sort_by_tone(cols, TRUE), retries, retries)}

----------------------------------------------------------------------------
(* The slot assigner.                                                      *)

Channels == <<"red", "green", "blue">>

\* prominence with the largest difference for the smallest
prominence_max(rgb, highlights) ==
    LET hl        == {highlights[k] : k \in 1..Len(highlights)}
        desired   == {k \in 1..3 : Channels[k] \in hl}
        undesired == {k \in 1..3 : Channels[k] \notin hl}
        diffs     == {rgb[d] - rgb[u] : d \in desired, u \in undesired}
    IN  IF \E h \in hl : h \notin {"red", "green", "blue"} THEN Raise("ValueError")
        ELSE IF diffs = {} THEN Raise("ValueError")
        ELSE Return(CHOOSE m \in diffs : \A x \in diffs : m >= x, FALSE)

\* Theme.prominence(rgb, highlights), highlights a sequence of hue names
prominence(rgb, highlights) ==
    LET hl        == {highlights[k] : k \in 1..Len(highlights)}
        desired   == {k \in 1..3 : Channels[k] \in hl}
        undesired == {k \in 1..3 : Channels[k] \notin hl}
        diffs     == {rgb[d] - rgb[u] : d \in desired, u \in undesired}
    IN  IF \E h \in hl : h \notin {"red", "green", "blue"} THEN Raise("ValueError")
        ELSE IF diffs = {} THEN Raise("ValueError")
        ELSE Return(CHOOSE m \in diffs : \A x \in diffs : m <= x, FALSE)

\* metrics[metric_name](colour)
metrics(metric_name, colour) ==
    CASE metric_name = "dark"    -> 0 - sum(colour)
      [] metric_name = "light"   -> sum(colour)
      [] metric_name = "red"     -> prominence(colour, <<"red">>).value
      [] metric_name = "green"   -> prominence(colour, <<"green">>).value
      [] metric_name = "blue"    -> prominence(colour, <<"blue">>).value
      [] metric_name = "cyan"    -> prominence(colour, <<"green", "blue">>).value
      [] metric_name = "magenta" -> prominence(colour, <<"red", "blue">>).value
      [] metric_name = "yellow"  -> prominence(colour, <<"red", "green">>).value

\* order[tone]
order(tone) ==
    LET own   == tone
        other == IF tone = "dark" THEN "light" ELSE "dark"
    IN  << <<"color00", own>>, <<"color07", other>>, <<"color01", "red">>,
           <<"color02", "green">>, <<"color04", "blue">>, <<"color03", "yellow">>,
           <<"color05", "magenta">>, <<"color06", "cyan">>, <<"color18", own>>,
           <<"color19", own>>, <<"color20", own>>, <<"color21", own>>,
           <<"color15", own>>, <<"color16", own>>, <<"color17", own>>,
           <<"color08", own>> >>

Accents == <<"color01", "color02", "color03", "color04", "color05", "color06">>

\* a reuse table that lost its last entry
reuse_palette_without_color17 ==
    [color08 |-> [options |-> Accents, metric_name |-> "dark"],
     color18 |-> [options |-> Accents, metric_name |-> "light"],
     color19 |-> [options |-> <<"color04">>, metric_name |-> ""],
     color20 |-> [options |-> <<"color07">>, metric_name |-> ""],
     color21 |-> [options |-> <<"color00">>, metric_name |-> ""],
     color15 |-> [options |-> <<"color01">>, metric_name |-> ""],
     color16 |-> [options |-> <<"color06">>, metric_name |-> ""]]

\* a reuse table whose entry of color19 names a slot that is filled after it
reuse_palette_naming_color08 ==
    [color08 |-> [options |-> Accents, metric_name |-> "dark"],
     color18 |-> [options |-> Accents, metric_name |-> "light"],
     color19 |-> [options |-> <<"color08">>, metric_name |-> ""],
     color20 |-> [options |-> <<"color07">>, metric_name |-> ""],
     color21 |-> [options |-> <<"color00">>, metric_name |-> ""],
     color15 |-> [options |-> <<"color01">>, metric_name |-> ""],
     color16 |-> [options |-> <<"color06">>, metric_name |-> ""],
     color17 |-> [options |-> <<"color02">>, metric_name |-> ""]]

\* reuse_palette: label -> [options, metric_name]; metric_name "" for a single slot
reuse_palette ==
    [color08 |-> [options |-> Accents, metric_name |-> "dark"],
     color18 |-> [options |-> Accents, metric_name |-> "light"],
     color19 |-> [options |-> <<"color04">>, metric_name |-> ""],
     color20 |-> [options |-> <<"color07">>, metric_name |-> ""],
     color21 |-> [options |-> <<"color00">>, metric_name |-> ""],
     color15 |-> [options |-> <<"color01">>, metric_name |-> ""],
     color16 |-> [options |-> <<"color06">>, metric_name |-> ""],
     color17 |-> [options |-> <<"color02">>, metric_name |-> ""]]

\* sorted(palette, key=metrics[metric_name])
sort_by_metric(palette, metric_name) ==
    sorted(palette, [i \in 1..Len(palette) |-> metrics(metric_name, palette[i])])

\* get_preference applied to reuse_palette[label], over the designations made so far
get_preference(designations, options, metric_name) ==
    IF \E k \in 1..Len(options) : options[k] \notin DOMAIN designations
    THEN Raise("KeyError")
    ELSE IF metric_name = "" THEN Return(designations[options[1]], FALSE)
    ELSE Return(sort_by_metric([k \in 1..Len(options) |-> designations[options[k]]],
                               metric_name)[1], FALSE)

RECURSIVE assign_loop(_, _, _, _)

\* designations[label] = get_preference(...), then the next entry
assign_reused(ord, i, pref, designations) ==
    IF pref.raised # "none" THEN pref
    ELSE assign_loop(ord, i + 1, <<>>, (ord[i][1] :> pref.value) @@ designations)

\* an entry that pops the first colour of the sorted palette
assign_entry_pop_first(ord, i, ordered, designations) ==
    IF ordered # <<>>
    THEN assign_loop(ord, i + 1, Tail(ordered),
                     (ord[i][1] :> Head(ordered)) @@ designations)
    ELSE IF ord[i][1] \notin DOMAIN reuse_palette THEN Raise("KeyError")
    ELSE assign_reused(ord, i,
                       get_preference(designations, reuse_palette[ord[i][1]].options,
                                      reuse_palette[ord[i][1]].metric_name),
                       designations)

\* entry i of the loop once the palette is sorted: pop the last colour, or reuse
assign_entry(ord, i, ordered, designations) ==
    IF ordered # <<>>
    THEN assign_loop(ord, i + 1, SubSeq(ordered, 1, Len(ordered) - 1),
                     (ord[i][1] :> ordered[Len(ordered)]) @@ designations)
    ELSE IF ord[i][1] \notin DOMAIN reuse_palette THEN Raise("KeyError")
    ELSE assign_reused(ord, i,
                       get_preference(designations, reuse_palette[ord[i][1]].options,
                                      reuse_palette[ord[i][1]].metric_name),
                       designations)

\* a loop that goes on with the palette it was given, nothing consumed
assign_loop_without_pop(ord, i, palette, designations) ==
    IF i > Len(ord) THEN Return(designations, FALSE)
    ELSE IF palette = <<>>
    THEN assign_entry(ord, i, <<>>, designations)
    ELSE assign_loop(ord, i + 1, palette,
                     (ord[i][1] :> sort_by_metric(palette, ord[i][2])[Len(palette)])
                         @@ designations)

\* the for-loop of assign_palette from entry i of the order table
assign_loop(ord, i, palette, designations) ==
    IF i > Len(ord) THEN Return(designations, FALSE)
    ELSE assign_entry(ord, i, sort_by_metric(palette, ord[i][2]), designations)

\* Theme.assign_palette (base16_imagen.py and themerator.py): self.palette, self.dark
assign_palette(palette, dark) ==
    assign_loop(order(IF dark THEN "dark" ELSE "light"), 1, palette, <<>>)

\* sweet16.ThemeMaker.assign_palette: the order table
sweet16_order ==
    << <<"color00", "dark">>, <<"color07", "light">>, <<"color01", "red">>,
       <<"color02", "green">>, <<"color04", "blue">>, <<"color03", "yellow">>,
       <<"color05", "magenta">>, <<"color06", "cyan">>, <<"color18", "dark">>,
       <<"color19", "dark">>, <<"color20", "dark">>, <<"color21", "dark">>,
       <<"color15", "dark">>, <<"color16", "dark">>, <<"color17", "dark">>,
       <<"color08", "dark">> >>

RECURSIVE sweet16_assign_loop(_, _, _)

\* entry i of the loop once the palette is sorted: designations[label] = palette.pop()
sweet16_assign_entry(i, ordered, designations) ==
    IF ordered = <<>> THEN Raise("IndexError")
    ELSE sweet16_assign_loop(i + 1, SubSeq(ordered, 1, Len(ordered) - 1),
                             (sweet16_order[i][1] :> ordered[Len(ordered)]) @@ designations)

\* the for-loop of sweet16's assign_palette (no attribute dominant_colour is set)
sweet16_assign_loop(i, palette, designations) ==
    IF i > Len(sweet16_order) THEN Return(designations, FALSE)
    ELSE sweet16_assign_entry(i, sort_by_metric(palette, sweet16_order[i][2]), designations)

sweet16_assign_palette(palette) == sweet16_assign_loop(1, palette, <<>>)

----------------------------------------------------------------------------
(* Building a theme.  A build is [result, theme, colours]: the result of    *)
(* the call, the theme object built (NoTheme when the call raised) and the *)
(* caller's colour list as the call leaves it.  An operation gives the set *)
(* of the builds that it can end in.                                       *)

\* Python's None (no variant string of the model spells it)
None == "None"

NoTheme == [impl |-> "none", dark |-> FALSE, palette |-> <<>>, designations |-> <<>>]

\* sum(colour) / 3
mean(colour) == divide(Dyadic(sum(colour), 0), Dyadic(3, 0))

\* intensity / 100, for 0 <= intensity <= 100
fraction(intensity) == divide(Dyadic(intensity, 0), Dyadic(100, 0))

\* dark = background < (255 / 2), background = sum(dominant_colour) / 3
dominant_dark(dominant_colour) == greater(Dyadic(255, 1), mean(dominant_colour))

\* darkness_boundaries of generate_palette
darkness_boundaries(dominant_colour, variant, intensity) ==
    IF variant \in {None, ""}
    THEN IF dominant_dark(dominant_colour)
         THEN <<mean(dominant_colour), multiply(fraction(intensity), 255)>>
         ELSE <<multiply(subtract(Dyadic(1, 0), fraction(intensity)), 255),
                mean(dominant_colour)>>
    ELSE IF variant = "dark"
    THEN <<multiply(subtract(Dyadic(1, 0), fraction(intensity)), 255), Dyadic(255, 0)>>
    ELSE <<Dyadic(0, 0), multiply(fraction(intensity), 255)>>

\* sum(colour) / 3 >= lower_bound and sum(colour) / 3 <= upper_bound
in_band(colour, bounds) ==
    ~greater(bounds[1], mean(colour)) /\ ~greater(mean(colour), bounds[2])

\* the colours of a list within the bounds
band(colours, bounds) == SelectSeq(colours, LAMBDA colour : in_band(colour, bounds))

\* self.dark = variant == "dark" or (variant is None and dark)
self_dark(dominant_colour, variant) ==
    variant = "dark" \/ (variant = None /\ dominant_dark(dominant_colour))

\* base16_imagen.Theme.generate_palette; colours is the caller's list, which
\* colours.pop(0) shortens; has_logger: whether self.logger is set.  assigned:
\* whether self.dark was assigned, dark: its value
generate_palette(colours, variant, intensity, has_logger) ==
    IF colours = <<>>
    THEN {[result |-> Raise("IndexError"), assigned |-> FALSE, dark |-> FALSE,
           colours |-> colours]}
    ELSE {[result |-> result, assigned |-> TRUE,
           dark |-> self_dark(Head(colours), variant), colours |-> Tail(colours)] :
             result \in filter_palette(
                            band(<<Head(colours)>> \o Tail(colours),
                                 darkness_boundaries(Head(colours), variant, intensity)),
                            self_dark(Head(colours), variant), has_logger, max_retries)}

\* what a constructor leaves: g the palette call's result, d the assigner's
built(impl, dark, g, d) ==
    IF g.raised # "none" THEN [result |-> g, theme |-> NoTheme]
    ELSE IF d.raised # "none" THEN [result |-> d, theme |-> NoTheme]
    ELSE [result |-> Return(NoValue, g.warned),
          theme  |-> [impl |-> impl, dark |-> dark, palette |-> g.value,
                      designations |-> d.value]]

\* generate_designations in the constructor: self.palette, then self.designations
generate_designations(g) ==
    built("base16_imagen", g.dark, g.result, assign_palette(g.result.value, g.dark))
        @@ [colours |-> g.colours]

\* base16_imagen.Theme.__init__: generate_designations runs before self.logger
\* is set
Theme(colours, variant, intensity) ==
    {generate_designations(g) : g \in generate_palette(colours, variant, intensity, FALSE)}

\* the theme object self after its method generate_palette ended as g: the
\* method assigns self.dark and returns the palette
palette_generated(self, g) ==
    IF g.assigned THEN [self EXCEPT !.dark = g.dark] ELSE self

\* the theme object self after self.palette = (the palette of g) and
\* self.designations = self.assign_palette(), which ended as d
designated(self, g, d) ==
    IF d.raised = "none"
    THEN [self EXCEPT !.dark = g.dark, !.palette = g.result.value,
                      !.designations = d.value]
    ELSE [self EXCEPT !.dark = g.dark, !.palette = g.result.value]

\* the result of generate_designations
designations_result(g, d) ==
    IF d.raised = "none" THEN Return(NoValue, g.result.warned) ELSE d

\* the method generate_designations of a theme object self, whose
\* generate_palette ended as g
designations_generated(self, g) ==
    IF g.result.raised # "none"
    THEN [result |-> g.result, theme |-> palette_generated(self, g), colours |-> g.colours]
    ELSE [result  |-> designations_result(g, assign_palette(g.result.value, g.dark)),
          theme   |-> designated(self, g, assign_palette(g.result.value, g.dark)),
          colours |-> g.colours]

\* an optional integer: the empty set for None
NoBound == {}

\* the argument darkness_boundaries of themerator.py: None, or [lower_bound,
\* upper_bound] of integers or None
NoBoundaries == [given |-> FALSE, lower |-> NoBound, upper |-> NoBound]

Boundaries(lower, upper) == [given |-> TRUE, lower |-> lower, upper |-> upper]

\* darkness_boundaries after `if darkness_boundaries is None`
themerator_darkness_boundaries(dark, boundaries) ==
    IF boundaries.given THEN boundaries
    ELSE IF dark THEN Boundaries({25}, NoBound)
    ELSE Boundaries(NoBound, {225})

\* (lower_bound is None or sum(colour) / 3 > lower_bound)
\* and (upper_bound is None or sum(colour) / 3 < upper_bound)
within(colour, boundaries) ==
    /\ \A lower_bound \in boundaries.lower : sum(colour) > 3 * lower_bound
    /\ \A upper_bound \in boundaries.upper : sum(colour) < 3 * upper_bound

\* themerator.Theme.get_palette over the quantiser's palette
get_palette(thief_palette, dark, boundaries) ==
    themerator_filter_palette(
        SelectSeq(thief_palette,
                  LAMBDA colour :
                      within(colour, themerator_darkness_boundaries(dark, boundaries))),
        dark, max_retries)

\* themerator.Theme.__init__
themerator_designate(g, dark) ==
    built("themerator", dark, g, assign_palette(g.value, dark))

themerator_Theme(thief_palette, dark, boundaries) ==
    {themerator_designate(g, dark) : g \in get_palette(thief_palette, dark, boundaries)}

\* sweet16.ThemeMaker.get_palette
sweet16_get_palette(thief_palette, dominant_background, darkness_threshold) ==
    sweet16_filter_palette(
        SelectSeq(thief_palette, LAMBDA colour : sum(colour) > 3 * darkness_threshold),
        dominant_background, max_retries)

\* sweet16.ThemeMaker.__init__ (the object keeps no tone)
sweet16_designate(g) ==
    built("sweet16", FALSE, g, sweet16_assign_palette(g.value))

sweet16_ThemeMaker(thief_palette, darkness_threshold, dominant_background) ==
    {sweet16_designate(g) :
        g \in sweet16_get_palette(thief_palette, dominant_background, darkness_threshold)}

\* the files save writes
Written(vim, shell) ==
    (IF vim THEN {"vim"} ELSE {}) \cup (IF shell THEN {"shell"} ELSE {})

\* Theme.save of base16_imagen.py and themerator.py, up to the files it writes
save(designations, vim, shell) ==
    IF DOMAIN designations = {} THEN Raise("ValueError: No colours designated")
    ELSE IF ~(vim \/ shell) THEN Raise("ValueError: Must select at least one")
    ELSE Return(Written(vim, shell), FALSE)

\* sweet16.ThemeMaker.save: the guard reads `not vim or shell`
sweet16_save(designations, vim, shell) ==
    IF DOMAIN designations = {} THEN Raise("ValueError: No colours designated")
    ELSE IF ~vim \/ shell THEN Raise("ValueError: Must select at least one")
    ELSE Return(Written(vim, shell), FALSE)

----------------------------------------------------------------------------
(* Inputs.  Base holds the first sixteen colours of preview_maker.py and   *)
(* six saturated colours; the quantiser's output for an image and the      *)
(* candidate lists handed to the filter are windows of it, and a few lists *)
(* with repeated or equally bright colours.                                *)

Base ==
    << <<26, 26, 26>>, <<216, 133, 104>>, <<131, 164, 113>>, <<185, 147, 83>>,
       <<142, 204, 221>>, <<185, 142, 178>>, <<124, 156, 174>>, <<204, 204, 204>>,
       <<118, 118, 118>>, <<248, 248, 248>>, <<216, 104, 104>>, <<139, 108, 55>>,
       <<34, 34, 34>>, <<29, 65, 77>>, <<184, 184, 184>>, <<232, 232, 232>>,
       <<204, 0, 0>>, <<0, 204, 0>>, <<0, 51, 102>>, <<0, 0, 153>>,
       <<153, 51, 255>>, <<204, 0, 255>> >>

Window(a, b) == SubSeq(Base, a, b)

\* the elements of a sequence
Range(seq) == {seq[i] : i \in 1..Len(seq)}

\* eight colours far apart from each other
Scenario ==
    << <<10, 10, 10>>, <<250, 250, 250>>, <<200, 30, 30>>, <<30, 200, 30>>,
       <<30, 30, 200>>, <<200, 200, 30>>, <<200, 30, 200>>, <<30, 200, 200>> >>

\* eight identical black triples
Blacks == SubSeq([k \in 1..8 |-> <<0, 0, 0>>], 1, 8)

\* five distinct colours, each twice
Pairs == SubSeq([k \in 1..10 |-> Scenario[(k + 1) \div 2]], 1, 10)

\* sixteen distinct colours of one brightness
EqualSum == SubSeq([k \in 1..16 |-> <<10 * k, 200 - 10 * k, 50>>], 1, 16)

\* seventeen distinct colours, three of them of one brightness close to the
\* darkest colour's
Triplet ==
    <<Base[1]>> \o SubSeq(Base, 2, 12) \o SubSeq(Base, 14, 15)
        \o << <<90, 0, 0>>, <<0, 90, 0>>, <<0, 0, 90>> >>

\* a black background, a grey, and two colours that are close to the grey and
\* far from each other
Crowded == << <<0, 0, 0>>, <<170, 170, 170>>, <<226, 115, 184>>, <<115, 226, 184>> >>

MaxStart == 2

\* the candidate lists of the filter
Candidates ==
    {Window(a, b) : a \in 1..MaxStart, b \in 0..Len(Base)}
        \cup {Scenario, Blacks, Pairs, EqualSum, Triplet, Crowded}

MaxImageStart == 2

ImageEnds == 3

\* what the quantiser returns for an image: the dominant colour, then the palette
Images ==
    {Window(a, Len(Base) + 1 - e) : a \in 1..MaxImageStart, e \in 1..ImageEnds}
        \cup {Scenario}

Variants == {None, "", "dark", "light"}

Intensities == {50, 100}

MaxPalette == 17

\* the palettes handed to the assigner
Palettes == {Window(1, n) : n \in 0..MaxPalette}

\* the thresholds k / 2^ThresholdBits of a single similarity pass
ThresholdBits == 2

Thresholds == {Dyadic(k, ThresholdBits) : k \in 0..(2^ThresholdBits)}

MaxCalls == 2

\* the darkness_threshold handed to sweet16.ThemeMaker: the default and a third
\* of the scale
DarknessThresholds == {0, 85}

\* the darkness_boundaries handed to themerator.Theme: the default, a band of
\* medium brightness, and a list of two None
DarknessBoundaries ==
    {NoBoundaries, Boundaries({100}, {200}), Boundaries(NoBound, NoBound)}

\* the thresholds that the result of a pass is compared with: multiples of
\* 1/2^ComparedBits
ComparedBits == 4
Compared == {Dyadic(k, ComparedBits) : k \in 0..(2^ComparedBits)}

----------------------------------------------------------------------------
(* State.                                                                  *)

VARIABLES
    image,      \* the quantiser's output for the image (dominant colour first)
    colours,    \* base16_imagen.ThemeMaker.colours; the candidate list of a filter call
    theme,      \* the theme object built last (NoTheme before the first)
    call,       \* the last call and its arguments
    outcome,    \* what the last call returned or raised
    calls       \* the number of calls made

vars == <<image, colours, theme, call, outcome, calls>>

NoCall == [op |-> "none"]

\* no caller in the repository handles an exception: a call that raises ends the run
Running == outcome.raised = "none" /\ calls < MaxCalls

----------------------------------------------------------------------------
(* The program: a base16_imagen.ThemeMaker built from an image, themes     *)
(* built by the three modules from the same image, and save.               *)

\* ThemeMaker.__init__ of base16_imagen.py has run
Init ==
    /\ image \in Images
    /\ colours = image
    /\ theme = NoTheme
    /\ call = NoCall
    /\ outcome = Return(NoValue, FALSE)
    /\ calls = 0

\* a constructor has run: the theme it built, if any, is the one built last
Construct(b) ==
    /\ theme' = IF b.result.raised = "none" THEN b.theme ELSE theme
    /\ outcome' = b.result

\* base16_imagen.ThemeMaker.create_theme(name, variant, intensity): Theme is
\* handed the maker's own list
CreateTheme(variant, intensity) ==
    /\ Running
    /\ \E b \in Theme(colours, variant, intensity) :
          /\ Construct(b)
          /\ colours' = b.colours
    /\ call' = [op |-> "create_theme", variant |-> variant, intensity |-> intensity,
                colours |-> colours]
    /\ calls' = calls + 1
    /\ UNCHANGED image

\* theme.generate_palette(maker.colours, variant, intensity) on the theme built
\* last, a base16_imagen.Theme: self.logger is set
GeneratePalette(variant, intensity) ==
    /\ Running
    /\ theme.impl = "base16_imagen"
    /\ \E g \in generate_palette(colours, variant, intensity, TRUE) :
          /\ theme' = palette_generated(theme, g)
          /\ outcome' = g.result
          /\ colours' = g.colours
    /\ call' = [op |-> "generate_palette", variant |-> variant, intensity |-> intensity,
                colours |-> colours]
    /\ calls' = calls + 1
    /\ UNCHANGED image

\* theme.generate_designations(maker.colours, variant, intensity) on the theme
\* built last, a base16_imagen.Theme
GenerateDesignations(variant, intensity) ==
    /\ Running
    /\ theme.impl = "base16_imagen"
    /\ \E g \in generate_palette(colours, variant, intensity, TRUE) :
          /\ theme' = designations_generated(theme, g).theme
          /\ outcome' = designations_generated(theme, g).result
          /\ colours' = g.colours
    /\ call' = [op |-> "generate_designations", variant |-> variant,
                intensity |-> intensity, colours |-> colours]
    /\ calls' = calls + 1
    /\ UNCHANGED image

\* themerator.Theme(image_path, dark, darkness_boundaries)
BuildThemerator(dark, boundaries) ==
    /\ Running
    /\ \E b \in themerator_Theme(Tail(image), dark, boundaries) : Construct(b)
    /\ call' = [op |-> "themerator.Theme", dark |-> dark,
                darkness_boundaries |-> boundaries]
    /\ calls' = calls + 1
    /\ UNCHANGED <<image, colours>>

\* sweet16.ThemeMaker(image_path, darkness_threshold, dominant_background)
BuildSweet16(darkness_threshold, dominant_background) ==
    /\ Running
    /\ \E b \in sweet16_ThemeMaker(Tail(image), darkness_threshold, dominant_background) :
          Construct(b)
    /\ call' = [op |-> "sweet16.ThemeMaker", darkness_threshold |-> darkness_threshold,
                dominant_background |-> dominant_background]
    /\ calls' = calls + 1
    /\ UNCHANGED <<image, colours>>

\* save(vim, shell) of the theme built last
Save(vim, shell) ==
    /\ Running
    /\ theme # NoTheme
    /\ outcome' = IF theme.impl = "sweet16"
                  THEN sweet16_save(theme.designations, vim, shell)
                  ELSE save(theme.designations, vim, shell)
    /\ call' = [op |-> "save", impl |-> theme.impl, vim |-> vim, shell |-> shell]
    /\ calls' = calls + 1
    /\ UNCHANGED <<image, colours, theme>>

Next ==
    \/ \E variant \in Variants, intensity \in Intensities : CreateTheme(variant, intensity)
    \/ \E variant \in Variants, intensity \in Intensities :
          GeneratePalette(variant, intensity)
    \/ \E variant \in Variants, intensity \in Intensities :
          GenerateDesignations(variant, intensity)
    \/ \E dark \in BOOLEAN, boundaries \in DarknessBoundaries :
          BuildThemerator(dark, boundaries)
    \/ \E darkness_threshold \in DarknessThresholds, dominant_background \in BOOLEAN :
          BuildSweet16(darkness_threshold, dominant_background)
    \/ \E vim \in BOOLEAN, shell \in BOOLEAN : Save(vim, shell)

Spec == Init /\ [][Next]_vars

----------------------------------------------------------------------------
(* The filter on its own: one call of filter_palette or filter_by_similarity *)
(* on a candidate list.                                                    *)

InitFilter ==
    /\ image = <<>>
    /\ colours \in Candidates
    /\ theme = NoTheme
    /\ call = NoCall
    /\ outcome = Return(NoValue, FALSE)
    /\ calls = 0

\* self.filter_palette(colours) on a theme of tone dark; has_logger: whether
\* self.logger is set (themerator sets it first, base16_imagen last)
FilterPalette(impl, dark, has_logger) ==
    /\ calls = 0
    /\ outcome' \in CASE impl = "base16_imagen" ->
                           filter_palette(colours, dark, has_logger, max_retries)
                      [] impl = "themerator" ->
                           themerator_filter_palette(colours, dark, max_retries)
                      [] impl = "sweet16" ->
                           sweet16_filter_palette(colours, FALSE, max_retries)
    /\ call' = [op |-> "filter_palette", impl |-> impl, dark |-> dark,
                has_logger |-> has_logger]
    /\ calls' = 1
    /\ UNCHANGED <<image, colours, theme>>

\* self.filter_by_similarity(colours, similarity_threshold)
FilterBySimilarity(impl, similarity_threshold) ==
    /\ calls = 0
    /\ \E chosen \in CASE impl = "base16_imagen" ->
                             filter_by_similarity(colours, similarity_threshold)
                        [] impl = "themerator" ->
                             themerator_filter_by_similarity(colours, similarity_threshold)
                        [] impl = "sweet16" ->
                             sweet16_filter_by_similarity(colours, similarity_threshold) :
          outcome' = Return(chosen, FALSE)
    /\ call' = [op |-> "filter_by_similarity", impl |-> impl,
                similarity_threshold |-> similarity_threshold]
    /\ calls' = 1
    /\ UNCHANGED <<image, colours, theme>>

NextFilter ==
    \/ \E dark \in BOOLEAN, has_logger \in BOOLEAN :
          FilterPalette("base16_imagen", dark, has_logger)
    \/ \E dark \in BOOLEAN : FilterPalette("themerator", dark, TRUE)
    \/ FilterPalette("sweet16", TRUE, TRUE)
    \/ \E impl \in {"base16_imagen", "themerator", "sweet16"}, t \in Thresholds :
          FilterBySimilarity(impl, t)

SpecFilter == InitFilter /\ [][NextFilter]_vars

----------------------------------------------------------------------------
(* The assigner on its own: one call of assign_palette on a theme object   *)
(* holding a palette and a tone.                                           *)

InitAssign ==
    /\ image = <<>>
    /\ colours = <<>>
    /\ \E impl \in {"base16_imagen", "themerator", "sweet16"}, dark \in BOOLEAN,
          palette \in Palettes :
          theme = [impl |-> impl, dark |-> dark, palette |-> palette,
                   designations |-> <<>>]
    /\ call = NoCall
    /\ outcome = Return(NoValue, FALSE)
    /\ calls = 0

\* self.designations = d, when assign_palette returned d
Designate(d) ==
    /\ outcome' = d
    /\ theme' = IF d.raised = "none" THEN [theme EXCEPT !.designations = d.value]
                ELSE theme

\* self.designations = self.assign_palette()
AssignPalette ==
    /\ calls = 0
    /\ Designate(IF theme.impl = "sweet16" THEN sweet16_assign_palette(theme.palette)
                 ELSE assign_palette(theme.palette, theme.dark))
    /\ call' = [op |-> "assign_palette"]
    /\ calls' = 1
    /\ UNCHANGED <<image, colours>>

NextAssign == AssignPalette

SpecAssign == InitAssign /\ [][NextAssign]_vars

----------------------------------------------------------------------------
(* The scoring function on its own: one call of prominence on a colour.    *)

\* the colours scored: the base colours and the two of the spec's example
Scored == Range(Base) \cup {<<200, 50, 50>>, <<50, 50, 200>>}

\* the highlights asked for: the hues of the metrics, all three channels, and a
\* name that is no channel
Highlights ==
    {<<"red">>, <<"green">>, <<"blue">>, <<"green", "blue">>, <<"red", "blue">>,
     <<"red", "green">>, <<"red", "green", "blue">>, <<"cyan">>}

InitProminence ==
    /\ image = <<>>
    /\ \E colour \in Scored : colours = <<colour>>
    /\ theme = NoTheme
    /\ call = NoCall
    /\ outcome = Return(NoValue, FALSE)
    /\ calls = 0

\* self.prominence(colour, highlights)
Prominence(highlights) ==
    /\ calls = 0
    /\ outcome' = prominence(colours[1], highlights)
    /\ call' = [op |-> "prominence", highlights |-> highlights]
    /\ calls' = 1
    /\ UNCHANGED <<image, colours, theme>>

NextProminence == \E highlights \in Highlights : Prominence(highlights)

SpecProminence == InitProminence /\ [][NextProminence]_vars

----------------------------------------------------------------------------
(* Properties of the assigner (under SpecAssign).                          *)

\* the slots of the order table of a tone
Slots(dark) ==
    {order(IF dark THEN "dark" ELSE "light")[i][1] : i \in 1..16}

\* assign_palette of base16_imagen.py or themerator.py has been called
Assigned ==
    call.op = "assign_palette" /\ theme.impl \in {"base16_imagen", "themerator"}

\* C1 as claimed: for every palette of size >= 1 and either tone, assign_palette
\* returns a mapping that holds every slot of the order table
C1_EveryPaletteIsAssigned ==
    (Assigned /\ Len(theme.palette) >= 1) =>
        /\ outcome.raised = "none"
        /\ DOMAIN outcome.value = Slots(theme.dark)

\* C1, amended: for every palette of size >= 8 and either tone, assign_palette
\* returns a mapping that holds every slot of the order table; for a palette of
\* fewer than 8 colours it raises KeyError and leaves no mapping, so that it
\* never returns a partial mapping
C1_FullMappingFromEightColours ==
    Assigned =>
        IF Len(theme.palette) >= 8
        THEN /\ outcome.raised = "none"
             /\ DOMAIN outcome.value = Slots(theme.dark)
             /\ theme.designations = outcome.value
        ELSE /\ outcome.raised = "KeyError"
             /\ DOMAIN theme.designations = {}

\* a palette of ten colours was assigned: the last slots reuse earlier ones
C1_Witness ==
    /\ Assigned
    /\ Len(theme.palette) = 10
    /\ outcome.raised = "none"
    /\ Cardinality(DOMAIN theme.designations) = 16
    /\ theme.designations["color17"] = theme.designations["color02"]

\* the colour of a slot is one of the accent slots' colours and scores at least
\* as high under the metric as each of them
BestOfAccents(designations, label, metric_name) ==
    /\ \E k \in 1..Len(Accents) : designations[label] = designations[Accents[k]]
    /\ \A k \in 1..Len(Accents) :
          metrics(metric_name, designations[label])
              >= metrics(metric_name, designations[Accents[k]])

\* C14: a slot reached with an empty working palette whose reuse entry names
\* the accent slots and a metric (color08 with dark, reached by palettes of 8 to
\* 15 colours; color18 with light, reached by palettes of 8) receives the
\* maximum-scoring colour under that metric among the accent slots' colours
C14_ReuseTakesTheBestByMetric ==
    (Assigned /\ outcome.raised = "none" /\ Len(theme.palette) <= 15) =>
        /\ BestOfAccents(outcome.value, "color08", "dark")
        /\ Len(theme.palette) = 8 => BestOfAccents(outcome.value, "color18", "light")

\* the order table of the theme's tone
Order == order(IF theme.dark THEN "dark" ELSE "light")

\* the number of slots filled from the working palette
Primary == IF Len(theme.palette) < 16 THEN Len(theme.palette) ELSE 16

\* the colours left in the working palette once entries 1..i are filled (the
\* colours of a palette are pairwise distinct)
Remaining(i) ==
    Range(theme.palette) \ {outcome.value[Order[j][1]] : j \in 1..i}

\* C16: each slot filled from the working palette gets a colour that scores at
\* least as high under the slot's metric as every colour still in the working
\* palette; so with the dark tone color00 has the least channel sum of the
\* palette and color07 the greatest of the rest
C16_PrimaryTakesTheBestScore ==
    (Assigned /\ outcome.raised = "none") =>
        \A i \in 1..Primary : \A colour \in Remaining(i) :
            metrics(Order[i][2], outcome.value[Order[i][1]])
                >= metrics(Order[i][2], colour)

\* sixteen colours were assigned for the dark tone: color00 is darker than a
\* colour left after it and color07 lighter than a colour left after it
C16_Witness ==
    /\ Assigned
    /\ theme.dark
    /\ Len(theme.palette) = 16
    /\ outcome.raised = "none"
    /\ \E colour \in Remaining(1) : sum(colour) > sum(outcome.value["color00"])
    /\ \E colour \in Remaining(2) : sum(colour) < sum(outcome.value["color07"])

\* the slot of entry i of the order table (the three order tables name the
\* slots in one order)
Label(i) == IF theme.impl = "sweet16" THEN sweet16_order[i][1] ELSE Order[i][1]

\* assign_palette returned a mapping whose first min(k, 16) slots hold pairwise
\* different colours of the palette, all of the palette when it has 16
Consumed ==
    (call.op = "assign_palette" /\ outcome.raised = "none") =>
        /\ \A i \in 1..Primary : outcome.value[Label(i)] \in Range(theme.palette)
        /\ \A i, j \in 1..Primary :
              outcome.value[Label(i)] = outcome.value[Label(j)] => i = j
        /\ Len(theme.palette) = 16 =>
              /\ Cardinality(DOMAIN outcome.value) = 16
              /\ {outcome.value[Label(i)] : i \in 1..16} = Range(theme.palette)

\* C17: for a palette of k pairwise-distinct colours the first min(k, 16) slots
\* of the order table receive min(k, 16) different colours of the palette, a
\* bijection between slots and palette when k = 16, and the call leaves the
\* palette stored on the theme object as it was
C17_PrimaryConsumesColours ==
    [][Consumed' /\ theme'.palette = theme.palette]_vars

\* ten colours were assigned: the first ten slots hold all ten, the other six
\* reuse them
C17_Witness ==
    /\ Assigned
    /\ Len(theme.palette) = 10
    /\ outcome.raised = "none"
    /\ {outcome.value[Label(i)] : i \in 1..10} = Range(theme.palette)
    /\ \A i \in 11..16 : outcome.value[Label(i)] \in Range(theme.palette)

----------------------------------------------------------------------------
(* Properties of the filter (under SpecFilter).                            *)

\* the colours of a sequence are pairwise distinct
Distinct(seq) == \A i, j \in 1..Len(seq) : seq[i] = seq[j] => i = j

\* filter_palette of base16_imagen.py or themerator.py has been called
Filtered ==
    call.op = "filter_palette" /\ call.impl \in {"base16_imagen", "themerator"}

\* C2 as claimed: on at least 16 pairwise-distinct colours, either tone,
\* filter_palette returns exactly 16 colours, each an element of the input
C2_SixteenOfSixteenDistinct ==
    (Filtered /\ Len(colours) >= 16 /\ Distinct(colours)) =>
        /\ outcome.raised = "none"
        /\ Len(outcome.value) = 16
        /\ Range(outcome.value) \subseteq Range(colours)

\* C2, amended: on at least 16 pairwise-distinct colours, either tone,
\* filter_palette returns exactly 16 colours without a warning when a round of the
\* search leaves 16; otherwise it ends on the last round's colours: it raises
\* ValueError when they are fewer than 8, and else returns them (at least 8,
\* possibly fewer or more than 16), with a warning when they are fewer than 16
\* (themerator: whenever they are not 16), a warning that raises AttributeError
\* where base16_imagen has no logger yet.  Every colour returned is an element
\* of the input and is returned once.
C2_ReturnedColoursAreOfTheInput ==
    (Filtered /\ Len(colours) >= 16 /\ Distinct(colours)) =>
        \/ /\ outcome.raised = "none"
           /\ Len(outcome.value) >= 8
           /\ Range(outcome.value) \subseteq Range(colours)
           /\ Distinct(outcome.value)
           /\ outcome.warned = IF call.impl = "themerator" THEN Len(outcome.value) # 16
                               ELSE Len(outcome.value) < 16
           /\ (Len(outcome.value) < 16 => call.has_logger)
        \/ outcome.raised = "ValueError"
        \/ /\ outcome.raised = "AttributeError"
           /\ call.impl = "base16_imagen"
           /\ ~call.has_logger

\* twenty-two distinct colours were filtered down to sixteen of them
C2_Witness ==
    /\ Filtered
    /\ colours = Base
    /\ outcome.raised = "none"
    /\ Len(outcome.value) = 16
    /\ Range(outcome.value) \subseteq Range(colours)

\* C4: on a non-empty sequence with fewer than 8 distinct colour values,
\* filter_palette raises ValueError (can only find n (< 8) distinct colours) and
\* returns no palette
C4_FewerThanEightDistinctRaises ==
    (Filtered /\ colours # <<>> /\ Cardinality(Range(colours)) < 8) =>
        /\ outcome.raised = "ValueError"
        /\ outcome.value = NoValue

\* eight identical black triples were refused
C4_Witness ==
    /\ Filtered
    /\ colours = Blacks
    /\ outcome.raised = "ValueError"

\* C5 as claimed: filter_palette on an empty sequence returns an empty sequence
\* and raises no error
C5_EmptyInEmptyOut ==
    (Filtered /\ colours = <<>>) =>
        /\ outcome.raised = "none"
        /\ outcome.value = <<>>

\* C5, amended: filter_by_similarity on an empty sequence returns an empty
\* sequence and raises no error; filter_palette on an empty sequence raises
\* ValueError (can only find 0 (< 8) distinct colours)
C5_EmptyPassReturnsEmptyFilterRaises ==
    colours = <<>> =>
        /\ call.op = "filter_by_similarity" =>
              outcome.raised = "none" /\ outcome.value = <<>>
        /\ Filtered => outcome.raised = "ValueError"

\* filter_palette was called on an empty sequence and raised
C5_Witness ==
    /\ Filtered
    /\ colours = <<>>
    /\ outcome.raised = "ValueError"

\* the anchor of a call: the first of the colours of extreme brightness (the
\* darkest for a dark theme, the brightest for a light one)
IsAnchor(colour, seq, dark) ==
    \E i \in 1..Len(seq) :
        /\ seq[i] = colour
        /\ \A j \in 1..Len(seq) :
              IF dark THEN sum(seq[i]) <= sum(seq[j]) ELSE sum(seq[i]) >= sum(seq[j])
        /\ \A j \in 1..(i - 1) : sum(seq[j]) # sum(seq[i])

\* C6 as claimed: whenever the filter returns a palette for a non-empty sequence,
\* the caller's first element is the anchor (the first colour kept) and is in the
\* palette returned
C6_CallersFirstIsKept ==
    (call.op = "filter_palette" /\ colours # <<>> /\ outcome.raised = "none") =>
        /\ Head(outcome.value) = Head(colours)
        /\ Head(colours) \in Range(outcome.value)

\* C6, amended: whenever the filter returns a palette for a non-empty sequence,
\* the anchor of the similarity pass is the first element of the sequence sorted
\* by brightness (the darkest colour for a dark theme, the brightest for a light
\* one, the earliest of equals), and it is the first element of the palette
\* returned; the caller's first element is kept only if the passes keep it
C6_AnchorIsTheExtremeColour ==
    (call.op = "filter_palette" /\ colours # <<>> /\ outcome.raised = "none") =>
        /\ outcome.value # <<>>
        /\ IsAnchor(Head(outcome.value), colours, call.dark)

\* a light palette was returned without the caller's first colour
C6_Witness ==
    /\ Filtered
    /\ colours # <<>>
    /\ ~call.dark
    /\ outcome.raised = "none"
    /\ Head(colours) \notin Range(outcome.value)
    /\ IsAnchor(Head(outcome.value), colours, FALSE)
\* filter_by_similarity of base16_imagen.py or themerator.py has been called
Passed ==
    call.op = "filter_by_similarity" /\ call.impl \in {"base16_imagen", "themerator"}

\* the numbers of colours that the pass can keep of the same list at threshold t
kept_at(t) == {Len(chosen) : chosen \in filter_passes(call.impl, colours, t)}

\* t1 <= t2
Looser(t1, t2) ==
    BigToInt(t1.num) * 2^t2.bits <= BigToInt(t2.num) * 2^t1.bits

\* 1 - t1 >= 2 * (1 - t2): t2 is at most half as far from 1 as t1
HalfAsFar(t1, t2) ==
    BigToInt(OneMinus(t1)) * 2^t2.bits >= 2 * BigToInt(OneMinus(t2)) * 2^t1.bits

\* C15 as claimed: the number of colours kept is non-decreasing in the
\* threshold, |pass(t1)| <= |pass(t2)| for all t1 <= t2
C15_CountIsMonotone ==
    Passed =>
        \A t2 \in Compared :
            Looser(call.similarity_threshold, t2)
                => \A n \in kept_at(t2) : Len(outcome.value) <= n

\* C15, amended: the number of colours kept is not monotone in the threshold;
\* |pass(t1)| <= |pass(t2)| holds for the thresholds t1 <= t2 with
\* 1 - t1 >= 2 * (1 - t2), and so |pass(t)| <= |pass(1)|, the size of the list
C15_CountGrowsOverHalfTheGap ==
    Passed =>
        /\ \A t2 \in Compared :
              HalfAsFar(call.similarity_threshold, t2)
                  => \A n \in kept_at(t2) : Len(outcome.value) <= n
        /\ kept_at(Dyadic(1, 0)) = {Len(colours)}

\* base16_imagen.py kept three of the four colours at 3/4, where 13/16 keeps two
\* and 1 keeps all four
C15_Witness ==
    /\ Passed
    /\ call.impl = "base16_imagen"
    /\ colours = Crowded
    /\ call.similarity_threshold = Dyadic(3, 2)
    /\ Len(outcome.value) = 3
    /\ kept_at(Dyadic(13, 4)) = {2}
    /\ kept_at(Dyadic(1, 0)) = {4}

RECURSIVE IsSubsequence(_, _)
\* sub is seq with some elements left out
IsSubsequence(sub, seq) ==
    IF sub = <<>> THEN TRUE
    ELSE IF seq = <<>> THEN FALSE
    ELSE IF Head(sub) = Head(seq) THEN IsSubsequence(Tail(sub), Tail(seq))
    ELSE IsSubsequence(sub, Tail(seq))

\* get_similarity(c1, c2) > similarity_threshold is false, in the doubles of the code
SimilarityAtMost(c1, c2) ==
    ~greater(get_similarity(dist2(c1, c2)), call.similarity_threshold)

\* the difference of the channel sums
Delta(c1, c2) == IF sum(c1) >= sum(c2) THEN sum(c1) - sum(c2) ELSE sum(c2) - sum(c1)

\* the values that background_similarity_threshold of the module of the call
\* can have
BackgroundThresholds ==
    IF call.impl = "base16_imagen"
    THEN pow4(call.similarity_threshold)
    ELSE {themerator_background_similarity_threshold(call.similarity_threshold)}

\* (255 - delta / 3) / 255 > background_similarity_threshold is false, in the
\* doubles of the code
ClosenessAtMost(colour, anchor, background_similarity_threshold) ==
    ~greater(closeness(Delta(colour, anchor)), background_similarity_threshold)

\* C18: filter_by_similarity of base16_imagen.py and themerator.py returns a
\* subsequence of its input that begins with the input's first colour, the
\* anchor (of an empty input, the empty list); every two colours kept have
\* similarity <= t, and every colour kept after the anchor has brightness
\* closeness to the anchor <= the background threshold derived from t (in
\* base16_imagen.py, a double that pow can return for t ** 4)
C18_KeptColoursAreApart ==
    Passed =>
        /\ IsSubsequence(outcome.value, colours)
        /\ colours = <<>> => outcome.value = <<>>
        /\ colours # <<>> =>
              /\ outcome.value # <<>>
              /\ Head(outcome.value) = Head(colours)
        /\ \A i, j \in 1..Len(outcome.value) :
              i < j => SimilarityAtMost(outcome.value[i], outcome.value[j])
        /\ \E background_similarity_threshold \in BackgroundThresholds :
              \A i \in 2..Len(outcome.value) :
                  ClosenessAtMost(outcome.value[i], Head(colours),
                                  background_similarity_threshold)

\* at 3/4 themerator.py kept the anchor and more of at least 16 colours, and
\* dropped colours too
C18_Witness ==
    /\ Passed
    /\ call.impl = "themerator"
    /\ call.similarity_threshold = Dyadic(3, 2)
    /\ Len(colours) >= 16
    /\ Len(outcome.value) > 2
    /\ Len(outcome.value) < Len(colours)

\* what assign_palette makes of the palette that filter_palette returned, on
\* the same theme object
Composed == assign_palette(outcome.value, call.dark)

\* C19: a palette that filter_palette of base16_imagen.py or themerator.py
\* returns has at least 8 colours, and assign_palette completes on it without
\* error, with a colour for every slot of the order table
C19_FilterAndAssignerCompose ==
    (Filtered /\ outcome.raised = "none") =>
        /\ Len(outcome.value) >= 8
        /\ Composed.raised = "none"
        /\ DOMAIN Composed.value = Slots(call.dark)

\* base16_imagen.py returned a palette short of 16 colours, whose assignment
\* reaches slots with an empty working palette and reuses colours
C19_Witness ==
    /\ Filtered
    /\ call.impl = "base16_imagen"
    /\ outcome.raised = "none"
    /\ outcome.warned
    /\ Len(outcome.value) < 16
    /\ Composed.raised = "none"
    /\ Composed.value["color19"] = Composed.value["color04"]

\* the sizes of the candidate lists that the rounds of the last filter_palette
\* call produced
ObservedSizes ==
    UNION {{Len(s.candidates) :
               s \in search(call.impl, sort_by_tone(colours, call.dark), rounds,
                            max_retries)} : rounds \in 1..max_retries}

\* how far a size is from the 16 colours wanted
Off(n) == IF n >= 16 THEN n - 16 ELSE 16 - n

\* C13: when the search runs out of rounds, the list returned is the best one
\* observed over all rounds, the one whose size is closest to 16
C13_BestObservedIsReturned ==
    (Filtered /\ outcome.raised = "none" /\ Len(outcome.value) # 16) =>
        \A n \in ObservedSizes : Off(Len(outcome.value)) <= Off(n)

----------------------------------------------------------------------------
(* Properties of the program (under Spec).                                 *)

\* the colours generate_palette handed to filter_palette in the last create_theme
Banded ==
    band(call.colours,
         darkness_boundaries(Head(call.colours), call.variant, call.intensity))

\* no colour but the anchor has the anchor's channel sum
Spread(seq, dark) ==
    \A i, j \in 1..Len(seq) :
        (IsAnchor(seq[i], seq, dark) /\ sum(seq[j]) = sum(seq[i])) => seq[j] = seq[i]

\* C3: a theme built from k pairwise-distinct colours, 8 <= k <= 15, spread
\* across brightness, is built without an exception, with a warning of the
\* degraded palette, and its palette holds all k colours
C3_DegradedPaletteIsBuilt ==
    (/\ call.op = "create_theme"
     /\ call.colours # <<>>
     /\ Len(Banded) \in 8..15
     /\ Distinct(Banded)
     /\ Spread(Banded, self_dark(Head(call.colours), call.variant))) =>
        /\ outcome.raised = "none"
        /\ outcome.warned
        /\ theme.impl = "base16_imagen"
        /\ Len(theme.palette) = Len(Banded)
        /\ Range(theme.palette) = Range(Banded)

\* C7: create_theme leaves the maker's colour list as ThemeMaker.__init__ built it
C7_MakerColoursUnchanged ==
    call.op = "create_theme" => colours = image

\* C9: with no variant (None or the empty string) the theme is dark exactly when
\* the dominant colour's mean channel value is below 255 / 2
C9_ToneFromDominantColour ==
    (/\ call.op \in {"create_theme", "generate_palette", "generate_designations"}
     /\ call.variant \in {None, ""}
     /\ outcome.raised = "none") =>
        theme.dark = (2 * sum(Head(call.colours)) < 255 * 3)

\* C10: save raises 'Must select at least one' exactly when vim and shell are
\* both false, in each of the three modules
C10_SaveRefusesOnlyNoTarget ==
    (call.op = "save" /\ DOMAIN theme.designations # {}) =>
        ((outcome.raised = "ValueError: Must select at least one")
            <=> (~call.vim /\ ~call.shell))

\* C11: a sweet16 theme built with dominant_background true has the image's
\* dominant colour for color00
C11_DominantColourIsBackground ==
    (/\ call.op = "sweet16.ThemeMaker"
     /\ call.dominant_background
     /\ outcome.raised = "none") =>
        theme.designations["color00"] = Head(image)

----------------------------------------------------------------------------
(* Properties of the scoring function (under SpecProminence).              *)

\* the channels a call of prominence asked for, and the others
Desired == {k \in 1..3 : Channels[k] \in Range(call.highlights)}

Undesired == {k \in 1..3 : Channels[k] \notin Range(call.highlights)}

\* C12: for one or two hues of red, green, blue, prominence(c, hues) is the
\* least of c[desired] - c[undesired] over the desired and undesired channels;
\* prominence((200,50,50), [red]) = 150 and prominence((50,50,200), [red]) = -150
C12_ProminenceIsLeastDifference ==
    (/\ call.op = "prominence"
     /\ Range(call.highlights) \subseteq {"red", "green", "blue"}
     /\ Cardinality(Range(call.highlights)) \in 1..2) =>
        /\ outcome.raised = "none"
        /\ \A d \in Desired, u \in Undesired :
              outcome.value <= colours[1][d] - colours[1][u]
        /\ \E d \in Desired, u \in Undesired :
              outcome.value = colours[1][d] - colours[1][u]
        /\ (colours[1] = <<200, 50, 50>> /\ call.highlights = <<"red">>) =>
              outcome.value = 150
        /\ (colours[1] = <<50, 50, 200>> /\ call.highlights = <<"red">>) =>
              outcome.value = -150

\* the red of (50,50,200) was scored -150
C12_Witness ==
    /\ call.op = "prominence"
    /\ colours = << <<50, 50, 200>> >>
    /\ call.highlights = <<"red">>
    /\ outcome.raised = "none"
    /\ outcome.value = -150
====
